---- MODULE Spec2Model ----
(***************************************************************************)
(* A model of pkg/nvkind/cluster.go of NVIDIA/nvkind: the reconciliation   *)
(* of a cluster handle's configuration with the configuration recorded in  *)
(* the cluster (NewCluster / setConfig / Create) and the resolution of the *)
(* live node names against the declared nodes (GetNodes).                  *)
(*                                                                         *)
(* Strings that the code inspects character by character (node names, role *)
(* tokens) are sequences of byte values, so that sort.Strings,             *)
(* strings.TrimRightFunc and strings.HasSuffix are computed as Go computes *)
(* them.  Go slices are records [nil, elems], so that a nil slice and an   *)
(* empty slice are different values, as they are for reflect.DeepEqual.    *)
(* Go pointers and maps are addresses into the heaps objs and maps.        *)
(***************************************************************************)
EXTENDS Integers, Sequences, FiniteSets, TLC

\* ------------------------------------------------------------------------
\* Bounds of the model
\* ------------------------------------------------------------------------

\* longest output of `kind get nodes` (number of names) that is explored
MaxLive == 3

\* longest c.config.Nodes that is explored
MaxDeclared == 3

\* number of mutations a caller applies after GetNodes has returned
MaxMutations == 1

\* longest input (in bytes) given to runChildProcess
MaxInput == 3

\* number of bytes the pipe to the child's standard input can hold
PipeCap == 1

\* ------------------------------------------------------------------------
\* Strings as byte sequences
\* ------------------------------------------------------------------------

\* kind.ControlPlaneRole, "control-plane"
ControlPlaneRole == <<99, 111, 110, 116, 114, 111, 108, 45, 112, 108, 97, 110, 101>>

\* kind.WorkerRole, "worker"
WorkerRole == <<119, 111, 114, 107, 101, 114>>

\* the empty string, the Role of a declaration that omits `role:`
NoRole == <<>>

\* unicode.IsDigit on the bytes the model uses ('0'..'9')
IsDigit(ch) == ch \in 48..57

\* strings.TrimRightFunc(s, unicode.IsDigit)
RECURSIVE TrimRightDigits(_)
TrimRightDigits(s) ==
    IF Len(s) > 0 /\ IsDigit(s[Len(s)])
    THEN TrimRightDigits(SubSeq(s, 1, Len(s) - 1))
    ELSE s

\* strings.HasSuffix(s, suffix)
HasSuffix(s, suffix) ==
    /\ Len(s) >= Len(suffix)
    /\ SubSeq(s, Len(s) - Len(suffix) + 1, Len(s)) = suffix

\* a < b in the byte-wise lexicographic order sort.Strings uses
RECURSIVE LexLess(_, _)
LexLess(a, b) ==
    IF Len(b) = 0 THEN FALSE
    ELSE IF Len(a) = 0 THEN TRUE
    ELSE IF a[1] < b[1] THEN TRUE
    ELSE IF a[1] > b[1] THEN FALSE
    ELSE LexLess(Tail(a), Tail(b))

\* insertion of one string into a sorted list
RECURSIVE InsertSorted(_, _)
InsertSorted(x, sorted) ==
    IF Len(sorted) = 0 THEN <<x>>
    ELSE IF LexLess(x, Head(sorted)) THEN <<x>> \o sorted
    ELSE <<Head(sorted)>> \o InsertSorted(x, Tail(sorted))

\* a sort that leaves the list in the order of the output
SortStringsNoop(list) == list

\* sort.Strings(list), as the sorted list
RECURSIVE SortStrings(_)
SortStrings(list) ==
    IF Len(list) = 0 THEN <<>>
    ELSE InsertSorted(Head(list), SortStrings(Tail(list)))

\* strings.Fields output of `kind get nodes`: the names a cluster "k" can
\* report, and one name that carries no role token
ClusterPrefix == <<107, 45>>

NameControlPlane == ClusterPrefix \o ControlPlaneRole

NameControlPlane2 == ClusterPrefix \o ControlPlaneRole \o <<50>>

NameWorker == ClusterPrefix \o WorkerRole

NameWorker2 == ClusterPrefix \o WorkerRole \o <<50>>

NameWorker10 == ClusterPrefix \o WorkerRole \o <<49, 48>>

NameXyz2 == ClusterPrefix \o <<120, 121, 122, 45, 50>>

NamePool ==
    {NameControlPlane, NameControlPlane2, NameWorker, NameWorker2,
     NameWorker10, NameXyz2}

\* ------------------------------------------------------------------------
\* State
\* ------------------------------------------------------------------------

VARIABLES
    \* --- the provisioning tool and the clusters ---
    live,        \* the identities `kind get clusters` reports
    store,       \* per identity, the nvkind-cluster-config record of that cluster
    provisioned, \* per identity, what the live cluster was created from
    registered,  \* the clusters that hold the RuntimeClass nvidia
    \* --- the processes running nvkind ---
    pc,          \* per process, where it is: "idle", "nc_read", "cr_write"
    args,        \* per process, the arguments of its last NewCluster call
    handle,      \* per process, the *Cluster it holds (or nil)
    cr,          \* per process, the locals of its running Create call
    ret,         \* per process, what its last call returned
    \* --- one GetNodes call on a handle ---
    loopVarPerIteration, \* the loop-variable semantics of the build
    liveOut,     \* the fields of the output of `kind get nodes`
    cfgNodes,    \* c.config.Nodes
    maps,        \* heap of Go maps (Labels): address -> content
    objs,        \* heap of kind.Node objects: address -> value
    nodes,       \* the []Node GetNodes returned
    res,         \* the error GetNodes returned
    gnpc,        \* "ready" before the call, "done" after it
    snapshot,    \* what was declared and what was returned, at return time
    touched,     \* the returned nodes the caller has mutated since
    mutations,   \* how many mutations the caller has made
    \* --- one runChildProcess call ---
    cpInput,     \* len(input)
    cpMain,      \* where runChildProcess is: "off", "start", "run", "wait", "returned"
    cpErr,       \* the error runChildProcess returned
    cpPipe,      \* the pipe to the child's standard input
    cpProducer,  \* the goroutine that writes the input
    cpChild      \* the child process

lifeVars ==
    <<live, store, provisioned, registered, pc, args, handle, cr, ret>>

nodeVars ==
    <<loopVarPerIteration, liveOut, cfgNodes, maps, objs, nodes, res, gnpc,
      snapshot, touched, mutations>>

childVars == <<cpInput, cpMain, cpErr, cpPipe, cpProducer, cpChild>>

vars == <<lifeVars, nodeVars, childVars>>

\* ------------------------------------------------------------------------
\* GetNodes: the resolution of live node names against declared nodes
\* ------------------------------------------------------------------------

\* a kind.Node value: Labels is the address of its map in maps (0: nil map)
NodeValue(role, image, labels) ==
    [Role |-> role, Image |-> image, Labels |-> labels]

\* no error
NoErr == [err |-> "none", arg |-> <<>>]

\* classification that skips a name carrying no role token
RECURSIVE ClassifyNamesSkipUnknown(_, _, _, _)
ClassifyNamesSkipUnknown(list, i, cp, wk) ==
    IF i > Len(list)
    THEN [err |-> "none", arg |-> <<>>, cp |-> cp, worker |-> wk]
    ELSE LET node == list[i]
             trimmed == TrimRightDigits(node)
         IN  IF HasSuffix(trimmed, ControlPlaneRole)
             THEN ClassifyNamesSkipUnknown(list, i + 1, Append(cp, node), wk)
             ELSE IF HasSuffix(trimmed, WorkerRole)
             THEN ClassifyNamesSkipUnknown(list, i + 1, cp, Append(wk, node))
             ELSE ClassifyNamesSkipUnknown(list, i + 1, cp, wk)

\* the loop over nodeNamesList: nodeNames per role, or the first name (in
\* sorted order) whose role cannot be determined
RECURSIVE ClassifyNames(_, _, _, _)
ClassifyNames(list, i, cp, wk) ==
    IF i > Len(list)
    THEN [err |-> "none", arg |-> <<>>, cp |-> cp, worker |-> wk]
    ELSE LET node == list[i]
             trimmed == TrimRightDigits(node)
         IN  IF HasSuffix(trimmed, ControlPlaneRole)
             THEN ClassifyNames(list, i + 1, Append(cp, node), wk)
             ELSE IF HasSuffix(trimmed, WorkerRole)
             THEN ClassifyNames(list, i + 1, cp, Append(wk, node))
             ELSE [err |-> "unknownName", arg |-> node, cp |-> <<>>, worker |-> <<>>]

\* the address &node denotes in iteration i of `for _, node := range`, on a
\* heap that held base objects before the loop: one variable per iteration,
\* or one variable for the whole loop
LoopVarAddr(perIteration, base, i) ==
    IF perIteration THEN base + i ELSE base + 1

\* the heap after `node` has been assigned the i-th element (a struct copy:
\* the copy shares the element's Labels map)
LoopVarAssign(perIteration, base, i, os, value) ==
    IF LoopVarAddr(perIteration, base, i) > Len(os)
    THEN Append(os, value)
    ELSE [os EXCEPT ![LoopVarAddr(perIteration, base, i)] = value]

\* the loop over c.config.Nodes: nodeConfigs per role, as pointers to the
\* loop variable, or the first declaration whose role is unknown
RECURSIVE PartitionDeclared(_, _, _, _, _, _, _)
PartitionDeclared(declared, i, cp, wk, os, base, perIteration) ==
    IF i > Len(declared)
    THEN [err |-> "none", arg |-> <<>>, cp |-> cp, worker |-> wk, objs |-> os]
    ELSE LET os2 == LoopVarAssign(perIteration, base, i, os, declared[i])
             ptr == LoopVarAddr(perIteration, base, i)
         IN  IF declared[i].Role = ControlPlaneRole
             THEN PartitionDeclared(declared, i + 1, Append(cp, ptr), wk, os2,
                                    base, perIteration)
             ELSE IF declared[i].Role = WorkerRole
             THEN PartitionDeclared(declared, i + 1, cp, Append(wk, ptr), os2,
                                    base, perIteration)
             ELSE [err |-> "unknownRole", arg |-> declared[i].Role,
                   cp |-> <<>>, worker |-> <<>>, objs |-> os2]

\* a copy that is the pointer itself
ShallowCopy(ptr, os, ms) == [ptr |-> ptr, objs |-> os, maps |-> ms]

\* (*kind.Node).DeepCopy: a new object, with a new Labels map when there is one
DeepCopy(ptr, os, ms) ==
    IF os[ptr].Labels = 0
    THEN [ptr |-> Len(os) + 1, objs |-> Append(os, os[ptr]), maps |-> ms]
    ELSE [ptr |-> Len(os) + 1,
          objs |-> Append(os, [os[ptr] EXCEPT !.Labels = Len(ms) + 1]),
          maps |-> Append(ms, ms[os[ptr].Labels])]

\* a count check that lets fewer names than declarations through
CountsMatchAtMost(names, configs) == Len(names) <= Len(configs)

\* the condition under which a role is paired (the negation of the mismatch
\* test of the pairing loop)
CountsMatch(names, configs) == Len(names) = Len(configs)

\* the inner pairing loop of one role: node i is names[i] with a deep copy
\* of *configs[i]
RECURSIVE PairRole(_, _, _, _, _, _)
PairRole(names, configs, i, acc, os, ms) ==
    IF i > Len(names)
    THEN [nodes |-> acc, objs |-> os, maps |-> ms]
    ELSE LET copy == DeepCopy(configs[i], os, ms)
         IN  PairRole(names, configs, i + 1,
                      Append(acc, [Name |-> names[i], config |-> copy.ptr]),
                      copy.objs, copy.maps)

\* what GetNodes returns, and the heaps it leaves
GetNodesOutcome(execOk, output, declared, os, ms, perIteration) ==
    LET failed(e, a, os2) ==
            [nodes |-> <<>>, err |-> e, arg |-> a, objs |-> os2, maps |-> ms]
    IN
    IF ~execOk THEN failed("exec", <<>>, os)
    ELSE
    LET nodeNamesList == SortStrings(output)
        nodeNames == ClassifyNames(nodeNamesList, 1, <<>>, <<>>)
    IN
    IF nodeNames.err # "none" THEN failed(nodeNames.err, nodeNames.arg, os)
    ELSE
    LET nodeConfigs ==
            PartitionDeclared(declared, 1, <<>>, <<>>, os, Len(os), perIteration)
    IN
    IF nodeConfigs.err # "none"
    THEN failed(nodeConfigs.err, nodeConfigs.arg, nodeConfigs.objs)
    ELSE IF ~CountsMatch(nodeNames.cp, nodeConfigs.cp)
    THEN failed("mismatch", ControlPlaneRole, nodeConfigs.objs)
    ELSE
    LET first == PairRole(nodeNames.cp, nodeConfigs.cp, 1, <<>>,
                          nodeConfigs.objs, ms)
    IN
    IF ~CountsMatch(nodeNames.worker, nodeConfigs.worker)
    THEN failed("mismatch", WorkerRole, first.objs)
    ELSE
    LET second == PairRole(nodeNames.worker, nodeConfigs.worker, 1, first.nodes,
                           first.objs, first.maps)
    IN  [nodes |-> second.nodes, err |-> "none", arg |-> <<>>,
         objs |-> second.objs, maps |-> second.maps]

\* the configuration a returned node holds, followed through its pointers
NodeView(node, os, ms) ==
    [Role |-> os[node.config].Role, Image |-> os[node.config].Image,
     Labels |-> IF os[node.config].Labels = 0 THEN -1
                ELSE ms[os[node.config].Labels]]

\* a declaration of c.config.Nodes, followed through its pointers
DeclView(decl, ms) ==
    [Role |-> decl.Role, Image |-> decl.Image,
     Labels |-> IF decl.Labels = 0 THEN -1 ELSE ms[decl.Labels]]

\* ------------------------------------------------------------------------
\* Configurations, their YAML form and the record in the cluster
\* ------------------------------------------------------------------------

\* the processes that run nvkind concurrently
Procs == {"p1", "p2"}

\* the cluster identities in use
Identities == {"a", "b"}

\* a nil Go slice, and a non-nil one (possibly empty)
NilSlice == [nil |-> TRUE, elems |-> <<>>]

Slice(elems) == [nil |-> FALSE, elems |-> elems]

\* a nil *Config, and a Config whose Cluster has this name and these nodes
NoConfig == [nil |-> TRUE, Name |-> "", Nodes |-> NilSlice]

Config(name, nodesSlice) == [nil |-> FALSE, Name |-> name, Nodes |-> nodesSlice]

\* yaml.Marshal of a kind.Node: every key is omitempty
MarshalNode(n) ==
    [keys |-> {k \in {"role", "image"} :
                  \/ k = "role" /\ n.Role # NoRole
                  \/ k = "image" /\ n.Image # 0},
     role |-> n.Role, image |-> n.Image]

\* yaml.Unmarshal of one element of nodes: an absent key leaves the zero value
UnmarshalNode(d) ==
    NodeValue(IF "role" \in d.keys THEN d.role ELSE NoRole,
              IF "image" \in d.keys THEN d.image ELSE 0,
              0)

\* yaml.Marshal(c.config): name and nodes are omitempty, so an empty name
\* and a nil or empty node list leave no key in the document
Marshal(c) ==
    [keys |-> {k \in {"name", "nodes"} :
                  \/ k = "name" /\ c.Name # ""
                  \/ k = "nodes" /\ Len(c.Nodes.elems) > 0},
     name |-> c.Name,
     nodes |-> [i \in 1..Len(c.Nodes.elems) |-> MarshalNode(c.Nodes.elems[i])]]

\* yaml.Unmarshal(bytes, &existingConfig) into a zero kind.Cluster: a key
\* that is absent leaves the zero value, which for a slice is nil
Unmarshal(doc) ==
    Config(IF "name" \in doc.keys THEN doc.name ELSE "",
           IF "nodes" \in doc.keys
           THEN Slice([i \in 1..Len(doc.nodes) |-> UnmarshalNode(doc.nodes[i])])
           ELSE NilSlice)

\* a comparison of the cluster names alone
DeepEqualNamesOnly(x, y) == x.Name = y.Name

\* reflect.DeepEqual(&existingConfig, o.config.Cluster): the values are
\* compared through the pointers; a nil slice differs from an empty one
DeepEqual(x, y) == x = y

\* the document of the empty configuration
EmptyDoc == Marshal(Config("", NilSlice))

\* the answer of the store for a cluster without the nvkind-cluster-config
\* record, and a record.  written and provOk are history: the configuration
\* the writer serialized, and whether the writer's provisioning had succeeded
NotFound ==
    [found |-> FALSE, data |-> EmptyDoc, written |-> NoConfig, provOk |-> FALSE]

Record(doc, c, ok) == [found |-> TRUE, data |-> doc, written |-> c, provOk |-> ok]

\* what `kind create cluster` was given for the live cluster of an identity
\* (the document on its standard input), and how many Create calls have
\* returned success since; the value for an identity without a cluster
NotProvisioned == [bytes |-> EmptyDoc, successes |-> 0]

ProvisionedWith(doc) == [bytes |-> doc, successes |-> 0]

\* a nil *Cluster, and a Cluster
NoHandle == [nil |-> TRUE, Name |-> "", config |-> NoConfig]

Cluster(name, config) == [nil |-> FALSE, Name |-> name, config |-> config]

\* the node lists a caller's configuration declares: none, an empty list,
\* one control-plane node
NodeLists ==
    {NilSlice, Slice(<<>>), Slice(<<NodeValue(ControlPlaneRole, 1, 0)>>)}

\* the configurations a caller passes to NewCluster: none, or one named "b"
SuppliedConfigs == {NoConfig} \cup {Config("b", l) : l \in NodeLists}

\* the (name, configuration) arguments a process calls NewCluster with: p1
\* explores them all (cluster "a" by name, cluster "b" by the name of the
\* configuration), p2 is a rival that asks for cluster "a" with one node
NewClusterInputs(p) ==
    IF p = "p1"
    THEN {"", "a"} \X SuppliedConfigs
    ELSE {<<"a", Config("b", Slice(<<NodeValue(ControlPlaneRole, 1, 0)>>))>>}

\* the arguments of NewCluster where the accesses to the clusters are
\* explored: p1 asks for cluster "b" by the name of its configuration, and
\* for cluster "a" with a configuration that differs from the one of p2
AccessInputs(p) ==
    IF p = "p1"
    THEN {<<"", Config("b", NilSlice)>>, <<"a", Config("b", NilSlice)>>}
    ELSE NewClusterInputs(p)

\* retry.DefaultRetry.Steps
RetrySteps == 5

\* the locals of Create when no Create runs
CrIdle == [bytes |-> EmptyDoc, provOk |-> FALSE]

\* what a call returned.  existed, supplied, read: of NewCluster; provRuns,
\* provOk, writes: of Create; liveAfter, storeAfter: the cluster and the
\* record of the call's identity when the call returned; ctx, target: of a
\* call that accessed a cluster; log: the results of the attempts of the
\* store write of Create; chain: the returned error, from the outermost
\* message to the innermost wrapped error; failure: what the external step
\* that failed had reported
Returned(op, err, existed, read, provRuns, provOk, writes, name, lv, st) ==
    [op |-> op, err |-> err, existed |-> existed, read |-> read,
     provRuns |-> provRuns, provOk |-> provOk, writes |-> writes,
     liveAfter |-> name \in lv,
     storeAfter |-> IF name \in Identities THEN st[name] ELSE NotFound,
     ctx |-> "", target |-> "", log |-> <<>>, chain |-> <<>>, failure |-> ""]

NothingReturned ==
    [op |-> "none", err |-> "none", existed |-> FALSE, read |-> NotFound,
     provRuns |-> 0, provOk |-> FALSE, writes |-> 0,
     liveAfter |-> FALSE, storeAfter |-> NotFound, ctx |-> "", target |-> "",
     log |-> <<>>, chain |-> <<>>, failure |-> ""]

\* the context `kind create cluster` writes into the kubeconfig file for
\* the cluster of an identity
KindContext(name) == "kind-" \o name

\* a cluster access that names no context
AmbientContext(name) == ""

\* the context nvkind passes to kubectl (--context) and to the client
\* configuration (CurrentContext override): "kind-" + c.Name
ExplicitContext(name) == "kind-" \o name

\* the clusters an access with this context can reach: the live cluster
\* whose context it is, or none ("") when the context does not exist; an
\* access that names no context goes where the current-context of the
\* kubeconfig file points, which is any live cluster or none
ContextTargets(ctx) ==
    IF ctx = "" THEN live \cup {""}
    ELSE IF \E n \in live : KindContext(n) = ctx
    THEN {n \in live : KindContext(n) = ctx}
    ELSE {""}

\* a nil error, and fmt.Errorf("<context>: %w", err): an error that wraps
\* err, and wraps nothing when err is nil
NilError == <<>>

Wrap(context, err) == <<context>> \o err

\* errors.New / fmt.Errorf without %w, and the error of an external step
NewError(message) == <<message>>

\* a returned value with its error: the chain the code built, and what the
\* external step that failed had reported ("" when none failed)
WithError(r, chain, failure) == [r EXCEPT !.chain = chain, !.failure = failure]

\* a returned value of a call that accessed a cluster: the context it
\* named and the cluster it reached
Addressed(r, ctx, target) == [r EXCEPT !.ctx = ctx, !.target = target]

\* ------------------------------------------------------------------------
\* NewCluster and setConfig
\* ------------------------------------------------------------------------

\* a setConfig that leaves the name of the caller's configuration alone
SetNameNoop(name, cfg) == cfg

\* setConfig: o.config.Cluster.Name = o.name, when both are given
SetName(name, cfg) ==
    IF name # "" /\ ~cfg.nil THEN [cfg EXCEPT !.Name = name] ELSE cfg

\* NewCluster: o.name defaults to o.config.Name
HandleName(name, cfg) == IF name = "" THEN cfg.Name ELSE name

\* NewConfig(options...): the configuration decoded from the template given
\* by WithConfigTemplate; without a template there is nothing to build from
NewConfig(hasTemplate, template) ==
    IF hasTemplate
    THEN [err |-> "none", config |-> Unmarshal(template)]
    ELSE [err |-> "creating new config", config |-> NoConfig]

\* a reconciliation that compares the names alone
ReconcileNamesOnly(rec, cfg) ==
    IF ~rec.found
    THEN [err |-> "getting config bytes", config |-> NoConfig]
    ELSE IF ~cfg.nil
    THEN IF ~DeepEqualNamesOnly(Unmarshal(rec.data), cfg)
         THEN [err |-> "conflict", config |-> NoConfig]
         ELSE [err |-> "none", config |-> cfg]
    ELSE NewConfig(TRUE, rec.data)

\* a reconciliation that goes on with the bytes it has when the read failed
ReconcileIgnoreReadError(rec, cfg) ==
    IF ~cfg.nil
    THEN IF ~DeepEqual(Unmarshal(rec.data), cfg)
         THEN [err |-> "conflict", config |-> NoConfig]
         ELSE [err |-> "none", config |-> cfg]
    ELSE NewConfig(TRUE, rec.data)

\* setConfig for an existing cluster, given the answer rec of the store and
\* o.config (nil when the caller supplied none): the error, and o.config
Reconcile(rec, cfg) ==
    IF ~rec.found
    THEN [err |-> "getting config bytes", config |-> NoConfig]
    ELSE IF ~cfg.nil
    THEN IF ~DeepEqual(Unmarshal(rec.data), cfg)
         THEN [err |-> "conflict", config |-> NoConfig]
         ELSE [err |-> "none", config |-> cfg]
    ELSE NewConfig(TRUE, rec.data)

\* what the store answers to a read addressed to the cluster target: the
\* record of the cluster, or no answer when the cluster is gone or cannot
\* be reached
StoreRead(target, reachable) ==
    IF reachable /\ target # "" THEN store[target] ELSE NotFound

\* GetClusterNames: the error of `kind get clusters`, wrapped
GetClusterNamesError(listOk) ==
    IF listOk THEN NilError ELSE Wrap("executing command", NewError("exit status"))

\* getConfigBytesFromExistingCluster: its error.  The client configuration
\* cannot be loaded for a context that does not exist; the Get fails when
\* the cluster cannot be reached or has no record
GetConfigBytesError(target, reachable, rec) ==
    IF target = ""
    THEN Wrap("loading client config", NewError("context does not exist"))
    ELSE IF rec.found THEN NilError
    ELSE Wrap("getting configmap",
              NewError(IF reachable THEN "not found" ELSE "unavailable"))

\* setConfig for an existing cluster: its error, given the outcome of the
\* reconciliation and the error of the read
SetConfigError(err, readErr) ==
    IF err = "none" THEN NilError
    ELSE IF err = "getting config bytes" THEN Wrap("getting config bytes", readErr)
    ELSE IF err = "conflict"
    THEN NewError("cannot pass new config to existing cluster")
    ELSE Wrap("creating new config", NewError("template"))

\* NewCluster: the error of setConfig, wrapped
NewClusterError(setConfigErr) ==
    IF setConfigErr = NilError THEN NilError
    ELSE Wrap("setting config", setConfigErr)

\* the innermost error of a chain
Cause(chain) == IF chain = NilError THEN "" ELSE chain[Len(chain)]

\* a NewCluster that builds the handle whatever setConfig returned
NewClusterResultIgnoreError(err, name, cfg) ==
    Cluster(HandleName(name, cfg), cfg)

\* NewCluster after setConfig: nil when setConfig failed, else the handle
\* built from o.name and o.config
NewClusterResult(err, name, cfg) ==
    IF err # "none" THEN NoHandle ELSE Cluster(HandleName(name, cfg), cfg)

\* NewCluster up to the listing of the clusters and the branch on it; for
\* an existing cluster the read of the store is the next step
NewClusterCall(p, name, cfg) ==
    /\ pc[p] = "idle"
    /\ HandleName(name, cfg) # "" \/ cfg.nil
    /\ args' = [args EXCEPT ![p] = [name |-> name, config |-> cfg]]
    /\ \E listOk \in BOOLEAN :
          LET ocfg == SetName(name, cfg)
              done(err, c, setConfigErr, failure) ==
                  /\ pc' = pc
                  /\ handle' = [handle EXCEPT ![p] = NewClusterResult(err, name, c)]
                  /\ ret' = [ret EXCEPT ![p] =
                               WithError(
                                 Returned("NewCluster", err, name \in live,
                                          NotFound, 0, FALSE, 0,
                                          HandleName(name, ocfg), live, store),
                                 NewClusterError(setConfigErr), failure)]
          IN  IF ~listOk
              THEN done("listing", cfg,
                        Wrap("getting list of existing clusters",
                             GetClusterNamesError(FALSE)),
                        "exit status")
              ELSE IF name \notin live /\ ~ocfg.nil
              THEN done("none", ocfg, NilError, "")
              ELSE IF name \in live
              THEN /\ pc' = [pc EXCEPT ![p] = "nc_read"]
                   /\ handle' = [handle EXCEPT ![p] = NoHandle]
                   /\ ret' = [ret EXCEPT ![p] = NothingReturned]
              ELSE LET new == NewConfig(FALSE, EmptyDoc)
                   IN  done(new.err, new.config,
                            Wrap("creating new config", NewError("no template")),
                            "")
    /\ UNCHANGED <<live, store, provisioned, registered, cr, nodeVars, childVars>>

\* NewCluster from the read of the store to its return
NewClusterRead(p) ==
    /\ pc[p] = "nc_read"
    /\ \E reachable \in BOOLEAN :
          LET name == args[p].name
              ctx == ExplicitContext(name)
          IN  \E target \in ContextTargets(ctx) :
                 LET rec == StoreRead(target, reachable)
                     readErr == GetConfigBytesError(target, reachable, rec)
                     out == Reconcile(rec, SetName(name, args[p].config))
                 IN  /\ handle' = [handle EXCEPT ![p] =
                                     NewClusterResult(out.err, name, out.config)]
                     /\ ret' = [ret EXCEPT ![p] =
                                  WithError(
                                    Addressed(
                                      Returned("NewCluster", out.err, TRUE, rec,
                                               0, FALSE, 0, name, live, store),
                                      ctx, target),
                                    NewClusterError(SetConfigError(out.err, readErr)),
                                    Cause(readErr))]
    /\ pc' = [pc EXCEPT ![p] = "idle"]
    /\ UNCHANGED <<live, store, provisioned, registered, args, cr, nodeVars, childVars>>

\* ------------------------------------------------------------------------
\* Create, Delete
\* ------------------------------------------------------------------------

\* a Create that goes on to the store write whatever the command returned
AfterProvisionAlways(ok) == "cr_write"

\* Create after cmd.Run: the store write follows only a successful run
AfterProvision(ok) == IF ok THEN "cr_write" ELSE "idle"

\* Create up to the return of `kind create cluster`, which fails when the
\* identity is in use and may fail for its own reasons
CreateProvision(p) ==
    /\ pc[p] = "idle"
    /\ ~handle[p].nil
    /\ \E toolOk \in BOOLEAN :
          LET name == handle[p].Name
              ok == toolOk /\ name \notin live
              configBytes == Marshal(handle[p].config)
          IN  /\ live' = IF ok THEN live \cup {name} ELSE live
              /\ store' = IF ok THEN [store EXCEPT ![name] = NotFound] ELSE store
              /\ provisioned' = IF ok
                                THEN [provisioned EXCEPT
                                        ![name] = ProvisionedWith(configBytes)]
                                ELSE provisioned
              /\ registered' = IF ok THEN registered \ {name} ELSE registered
              /\ pc' = [pc EXCEPT ![p] = AfterProvision(ok)]
              /\ IF AfterProvision(ok) = "cr_write"
                 THEN /\ cr' = [cr EXCEPT ![p] =
                                  [bytes |-> configBytes, provOk |-> ok]]
                      /\ ret' = [ret EXCEPT ![p] = NothingReturned]
                 ELSE /\ cr' = cr
                      /\ ret' = [ret EXCEPT ![p] =
                                   WithError(
                                     Returned("Create", "executing command",
                                              FALSE, NotFound, 1, ok, 0, name,
                                              live', store'),
                                     Wrap("executing command",
                                          NewError("exit status")),
                                     "exit status")]
    /\ UNCHANGED <<args, handle, nodeVars, childVars>>

\* a write that replaces the record when there is one
WriteResultsUpsert(name) ==
    IF name \notin live THEN {"unavailable"}
    ELSE {"ok", "conflict", "unavailable"}

\* the results one ConfigMaps.Create call can have
WriteResults(name) ==
    IF name \notin live THEN {"unavailable"}
    ELSE IF store[name].found THEN {"exists", "conflict", "unavailable"}
    ELSE {"ok", "conflict", "unavailable"}

\* a retry after any failure while steps are left
AfterAttemptRetryAny(result, attempts) ==
    IF result = "ok" THEN "return nil"
    ELSE IF attempts < RetrySteps THEN "retry"
    ELSE "return err"

\* retry.RetryOnConflict: "retry" after a conflict while steps are left
AfterAttempt(result, attempts) ==
    IF result = "ok" THEN "return nil"
    ELSE IF result = "conflict" /\ attempts < RetrySteps THEN "retry"
    ELSE "return err"

\* the attempts RetryOnConflict makes when the first conflicts attempts
\* conflict and the next one, if there is a next one, has this result; log
\* holds the results of the attempts made so far
RECURSIVE RetryOnConflict(_, _, _)
RetryOnConflict(conflicts, result, log) ==
    LET this == IF Len(log) < conflicts THEN "conflict" ELSE result
        next == AfterAttempt(this, Len(log) + 1)
    IN  IF next = "retry"
        THEN RetryOnConflict(conflicts, result, Append(log, this))
        ELSE [attempts |-> Len(log) + 1, last |-> this, next |-> next,
              log |-> Append(log, this)]

\* the error addConfigBytesToExistingCluster returns after the retried
\* write: err is its variable err, last assigned by kubernetes.NewForConfig
AddConfigBytesError(err, retryErr) ==
    IF retryErr # NilError THEN Wrap("writing configmap", err) ELSE NilError

\* addConfigBytesToExistingCluster on the cluster target ("": the context
\* does not exist), when the first conflicts attempts conflict and the next
\* has this result: its error, the attempts it made, whether it created the
\* record, and what the store reported when it failed
AddConfigBytes(target, conflicts, result) ==
    IF target = ""
    THEN [err |-> Wrap("loading client config", NewError("context does not exist")),
          log |-> <<>>, created |-> FALSE, failure |-> "context does not exist"]
    ELSE LET retried == RetryOnConflict(conflicts, result, <<>>)
             retryErr == IF retried.next = "return nil" THEN NilError
                         ELSE NewError(retried.last)
         IN  [err |-> AddConfigBytesError(NilError, retryErr),
              log |-> retried.log,
              created |-> retried.last = "ok",
              failure |-> Cause(retryErr)]

\* Create from the return of the command to its own return: the attempts
\* of addConfigBytesToExistingCluster to create the record (no conflict, a
\* conflict on every attempt but the last, a conflict on every attempt)
CreateWrite(p) ==
    /\ pc[p] = "cr_write"
    /\ \E conflicts \in {0, RetrySteps - 1, RetrySteps} :
          LET name == handle[p].Name
              ctx == ExplicitContext(name)
          IN  \E target \in ContextTargets(ctx) :
              \E result \in WriteResults(target) :
                 LET added == AddConfigBytes(target, conflicts, result)
                 IN  /\ "conflict" \in WriteResults(target) \/ conflicts = 0
                     /\ store' = IF added.created
                                 THEN [store EXCEPT ![target] =
                                         Record(cr[p].bytes, handle[p].config,
                                                cr[p].provOk)]
                                 ELSE store
                     /\ provisioned' =
                           IF added.err = NilError
                           THEN [provisioned EXCEPT ![target].successes = @ + 1]
                           ELSE provisioned
                     /\ ret' = [ret EXCEPT ![p] =
                                  [WithError(
                                     Addressed(
                                       Returned("Create",
                                                IF added.err = NilError
                                                THEN "none"
                                                ELSE "adding config to cluster",
                                                FALSE, NotFound, 1, cr[p].provOk,
                                                Len(added.log), name, live,
                                                store'),
                                       ctx, target),
                                     IF added.err = NilError THEN NilError
                                     ELSE Wrap("adding config to cluster", added.err),
                                     added.failure)
                                   EXCEPT !.log = added.log]]
    /\ cr' = [cr EXCEPT ![p] = CrIdle]
    /\ pc' = [pc EXCEPT ![p] = "idle"]
    /\ UNCHANGED <<live, registered, args, handle, nodeVars, childVars>>

\* the process dies inside Create, between the command and the store write
Crash(p) ==
    /\ pc[p] = "cr_write"
    /\ pc' = [pc EXCEPT ![p] = "idle"]
    /\ cr' = [cr EXCEPT ![p] = CrIdle]
    /\ handle' = [handle EXCEPT ![p] = NoHandle]
    /\ ret' = [ret EXCEPT ![p] = [NothingReturned EXCEPT !.op = "crash"]]
    /\ UNCHANGED <<live, store, provisioned, registered, args, nodeVars, childVars>>

\* runChildProcess: nil, or the error of cmd.Run wrapped
RunChildProcessError(ok) ==
    IF ok THEN NilError ELSE Wrap("error running", NewError("exit status"))

\* Delete: `kind delete cluster` removes the cluster, and its record with it
Delete(p) ==
    /\ pc[p] = "idle"
    /\ ~handle[p].nil
    /\ \E toolOk \in BOOLEAN :
          LET name == handle[p].Name
          IN  /\ live' = IF toolOk THEN live \ {name} ELSE live
              /\ store' = IF toolOk THEN [store EXCEPT ![name] = NotFound] ELSE store
              /\ provisioned' = IF toolOk
                                THEN [provisioned EXCEPT ![name] = NotProvisioned]
                                ELSE provisioned
              /\ registered' = IF toolOk THEN registered \ {name} ELSE registered
              /\ ret' = [ret EXCEPT ![p] =
                           WithError(
                             Returned("Delete",
                                      IF toolOk THEN "none" ELSE "executing command",
                                      FALSE, NotFound, 0, FALSE, 0, name, live',
                                      store'),
                             IF toolOk THEN NilError
                             ELSE Wrap("executing command", RunChildProcessError(FALSE)),
                             IF toolOk THEN "" ELSE "exit status")]
    /\ UNCHANGED <<pc, args, handle, cr, nodeVars, childVars>>

\* PrintClusterInfo: `kubectl cluster-info` then `kubectl get nodes`, both
\* with --context; the second runs only when the first succeeded
PrintClusterInfo(p) ==
    /\ pc[p] = "idle"
    /\ ~handle[p].nil
    /\ \E infoOk, nodesOk \in BOOLEAN, target \in ContextTargets(ExplicitContext(handle[p].Name)) :
          LET ctx == ExplicitContext(handle[p].Name)
              ok == target # "" /\ infoOk /\ nodesOk
          IN  ret' = [ret EXCEPT ![p] =
                        WithError(
                          Addressed([NothingReturned EXCEPT
                                       !.op = "PrintClusterInfo",
                                       !.err = IF ok THEN "none"
                                               ELSE "running process"],
                                    ctx, target),
                          IF ok THEN NilError
                          ELSE Wrap("running process", RunChildProcessError(FALSE)),
                          IF ok THEN "" ELSE "exit status")]
    /\ UNCHANGED <<live, store, provisioned, registered, pc, args, handle, cr,
                   nodeVars, childVars>>

\* RegisterNvidiaRuntimeClass: `kubectl apply -f -` with --context, fed the
\* RuntimeClass manifest
RegisterNvidiaRuntimeClass(p) ==
    /\ pc[p] = "idle"
    /\ ~handle[p].nil
    /\ \E applyOk \in BOOLEAN, target \in ContextTargets(ExplicitContext(handle[p].Name)) :
          LET ctx == ExplicitContext(handle[p].Name)
              ok == target # "" /\ applyOk
          IN  /\ registered' = IF ok THEN registered \cup {target} ELSE registered
              /\ ret' = [ret EXCEPT ![p] =
                           WithError(
                             Addressed([NothingReturned EXCEPT
                                          !.op = "RegisterNvidiaRuntimeClass",
                                          !.err = IF ok THEN "none"
                                                  ELSE "running process"],
                                       ctx, target),
                             IF ok THEN NilError
                             ELSE Wrap("running process", RunChildProcessError(FALSE)),
                             IF ok THEN "" ELSE "exit status")]
    /\ UNCHANGED <<live, store, provisioned, pc, args, handle, cr, nodeVars, childVars>>

\* ------------------------------------------------------------------------
\* The GetNodes call, and what its caller does to the values afterwards
\* ------------------------------------------------------------------------

\* GetNodes on a handle whose configuration declares cfgNodes, when `kind
\* get nodes` prints liveOut (or fails)
GetNodes ==
    /\ gnpc = "ready"
    /\ \E execOk \in BOOLEAN :
          LET out == GetNodesOutcome(execOk, liveOut, cfgNodes, objs, maps,
                                     loopVarPerIteration)
          IN  /\ nodes' = out.nodes
              /\ res' = [err |-> out.err, arg |-> out.arg]
              /\ objs' = out.objs
              /\ maps' = out.maps
              /\ snapshot' =
                    [declared |-> [i \in 1..Len(cfgNodes) |->
                                      DeclView(cfgNodes[i], maps)],
                     nodes |-> [k \in 1..Len(out.nodes) |->
                                   NodeView(out.nodes[k], out.objs, out.maps)]]
    /\ gnpc' = "done"
    /\ UNCHANGED <<loopVarPerIteration, liveOut, cfgNodes, touched, mutations,
                   lifeVars, childVars>>

\* the caller may go on to mutate what it holds
MayMutate ==
    /\ gnpc = "done"
    /\ res.err = "none"
    /\ mutations < MaxMutations

\* the caller assigns a field of declaration i of the cluster configuration
\* and writes into its Labels map
MutateClusterNode(i) ==
    /\ MayMutate
    /\ cfgNodes' = [cfgNodes EXCEPT ![i].Image = 0]
    /\ maps' = IF cfgNodes[i].Labels = 0 THEN maps
               ELSE [maps EXCEPT ![cfgNodes[i].Labels] = 1]
    /\ mutations' = mutations + 1
    /\ UNCHANGED <<loopVarPerIteration, liveOut, objs, nodes, res, gnpc,
                   snapshot, touched, lifeVars, childVars>>

\* the caller assigns a field of the configuration of returned node k and
\* writes into its Labels map
MutateReturnedNode(k) ==
    /\ MayMutate
    /\ objs' = [objs EXCEPT ![nodes[k].config].Image = 0]
    /\ maps' = IF objs[nodes[k].config].Labels = 0 THEN maps
               ELSE [maps EXCEPT ![objs[nodes[k].config].Labels] = 1]
    /\ touched' = touched \cup {k}
    /\ mutations' = mutations + 1
    /\ UNCHANGED <<loopVarPerIteration, liveOut, cfgNodes, nodes, res, gnpc,
                   snapshot, lifeVars, childVars>>

\* the sequences without repetition, of at most n elements of S
RECURSIVE InjectiveSeqs(_, _)
InjectiveSeqs(S, n) ==
    IF n = 0 THEN {<<>>}
    ELSE LET shorter == InjectiveSeqs(S, n - 1)
         IN  shorter \cup
             {Append(q, x) : q \in {r \in shorter : Len(r) = n - 1}, x \in S}

\* the outputs of `kind get nodes` that are explored: distinct names
LiveOutputs ==
    {q \in InjectiveSeqs(NamePool, MaxLive) :
        \A i, j \in 1..Len(q) : i # j => q[i] # q[j]}

\* the role sequences of the c.config.Nodes that are explored: every
\* sequence of the two roles, and those with the role of the last
\* declaration missing
DeclaredRoles ==
    UNION {[1..n -> {ControlPlaneRole, WorkerRole}] \cup
           {[roles EXCEPT ![n] = NoRole] :
               roles \in [1..n -> {ControlPlaneRole, WorkerRole}]} :
           n \in 0..MaxDeclared}

\* the c.config.Nodes that are explored: declaration i has image i and its
\* own Labels map, at address i
DeclaredLists ==
    {[i \in 1..Len(roles) |-> NodeValue(roles[i], i, i)] : roles \in DeclaredRoles}

\* ------------------------------------------------------------------------
\* runChildProcess: the caller, the producer goroutine and the child
\* ------------------------------------------------------------------------

\* cmd.Stdin when no pipe is attached: the child reads the null device
NoPipe == [attached |-> FALSE, writeOpen |-> FALSE, readOpen |-> FALSE, buf |-> 0]

\* the pipe cmd.StdinPipe returns: the caller holds the write end, the
\* read end becomes the child's standard input
NewPipe == [attached |-> TRUE, writeOpen |-> TRUE, readOpen |-> TRUE, buf |-> 0]

\* no goroutine was started
NoProducer == [pc |-> "none", written |-> 0, failed |-> FALSE]

\* the goroutine of `go func() { defer pipe.Close(); io.WriteString(...) }()`
NewProducer == [pc |-> "write", written |-> 0, failed |-> FALSE]

\* the children that are explored: one that reads its standard input to
\* end-of-input and then exits, and one that may exit at any moment
ChildKinds == {"readsAll", "exitsEarly"}

\* the exit statuses of the child that are explored
ExitCodes == {0, 1}

\* a child that has not been started
NewChild(kind, exit) ==
    [kind |-> kind, state |-> "unstarted", read |-> 0, exit |-> exit]

\* if len(input) > 0 { pipe, err := cmd.StdinPipe(); ...; go func() {...}() }
AttachPipe ==
    /\ cpMain = "start"
    /\ IF cpInput > 0
       THEN \E ok \in BOOLEAN :
               IF ok
               THEN /\ cpPipe' = NewPipe
                    /\ cpProducer' = NewProducer
                    /\ cpMain' = "run"
                    /\ cpErr' = cpErr
               ELSE /\ cpMain' = "returned"
                    /\ cpErr' = "attaching pipe to child"
                    /\ UNCHANGED <<cpPipe, cpProducer>>
       ELSE /\ cpMain' = "run"
            /\ UNCHANGED <<cpPipe, cpProducer, cpErr>>
    /\ UNCHANGED <<cpInput, cpChild, lifeVars, nodeVars>>

\* cmd.Run, first half: the child is started; when it cannot be started
\* both ends of the pipe are closed and Run returns the error
CmdStart ==
    /\ cpMain = "run"
    /\ \E ok \in BOOLEAN :
          IF ok
          THEN /\ cpChild' = [cpChild EXCEPT !.state = "running"]
               /\ cpMain' = "wait"
               /\ UNCHANGED <<cpPipe, cpErr>>
          ELSE /\ cpChild' = [cpChild EXCEPT !.state = "failed"]
               /\ cpPipe' = [cpPipe EXCEPT !.writeOpen = FALSE,
                                           !.readOpen = FALSE,
                                           !.buf = 0]
               /\ cpMain' = "returned"
               /\ cpErr' = "error running"
    /\ UNCHANGED <<cpInput, cpProducer, lifeVars, nodeVars>>

\* cmd.Run, second half: Wait blocks until the child has exited, closes
\* the caller's end of the pipe and reports the exit status
CmdWait ==
    /\ cpMain = "wait"
    /\ cpChild.state = "exited"
    /\ cpPipe' = [cpPipe EXCEPT !.writeOpen = FALSE]
    /\ cpErr' = IF cpChild.exit = 0 THEN "none" ELSE "error running"
    /\ cpMain' = "returned"
    /\ UNCHANGED <<cpInput, cpProducer, cpChild, lifeVars, nodeVars>>

\* io.WriteString(pipe, input), one byte at a time: it blocks while the
\* pipe is full and fails once either end is closed; the error is dropped
ProducerWrite ==
    /\ cpProducer.pc = "write"
    /\ IF ~cpPipe.writeOpen \/ ~cpPipe.readOpen
       THEN /\ cpProducer' = [cpProducer EXCEPT !.pc = "close", !.failed = TRUE]
            /\ cpPipe' = cpPipe
       ELSE /\ cpPipe.buf < PipeCap
            /\ cpPipe' = [cpPipe EXCEPT !.buf = @ + 1]
            /\ cpProducer' =
                  [cpProducer EXCEPT
                      !.written = @ + 1,
                      !.pc = IF cpProducer.written + 1 = cpInput
                             THEN "close" ELSE "write"]
    /\ UNCHANGED <<cpInput, cpMain, cpErr, cpChild, lifeVars, nodeVars>>

\* a goroutine that returns without closing the pipe
ProducerCloseForgotten ==
    /\ cpProducer.pc = "close"
    /\ cpProducer' = [cpProducer EXCEPT !.pc = "done"]
    /\ UNCHANGED <<cpPipe, cpInput, cpMain, cpErr, cpChild, lifeVars, nodeVars>>

\* defer pipe.Close(): runs when the goroutine returns, whatever the
\* write did
ProducerClose ==
    /\ cpProducer.pc = "close"
    /\ cpPipe' = [cpPipe EXCEPT !.writeOpen = FALSE]
    /\ cpProducer' = [cpProducer EXCEPT !.pc = "done"]
    /\ UNCHANGED <<cpInput, cpMain, cpErr, cpChild, lifeVars, nodeVars>>

\* the child reads one byte of its standard input
ChildRead ==
    /\ cpChild.state = "running"
    /\ cpPipe.buf > 0
    /\ cpPipe' = [cpPipe EXCEPT !.buf = @ - 1]
    /\ cpChild' = [cpChild EXCEPT !.read = @ + 1]
    /\ UNCHANGED <<cpInput, cpMain, cpErr, cpProducer, lifeVars, nodeVars>>

\* the child's standard input is at end-of-input: nothing is buffered and
\* no write end is open (the null device is always at end-of-input)
EndOfInput == cpPipe.buf = 0 /\ ~cpPipe.writeOpen

\* the child exits: at end-of-input, or whenever it likes; its end of the
\* pipe is closed with it
ChildExit ==
    /\ cpChild.state = "running"
    /\ cpChild.kind = "readsAll" => EndOfInput
    /\ cpChild' = [cpChild EXCEPT !.state = "exited"]
    /\ cpPipe' = [cpPipe EXCEPT !.readOpen = FALSE, !.buf = 0]
    /\ UNCHANGED <<cpInput, cpMain, cpErr, cpProducer, lifeVars, nodeVars>>

\* the steps of runChildProcess itself
Main == AttachPipe \/ CmdStart \/ CmdWait

\* the steps of the goroutine
Producer == ProducerWrite \/ ProducerClose

\* the steps of the child process
Child == ChildRead \/ ChildExit

\* ------------------------------------------------------------------------
\* Specifications
\* ------------------------------------------------------------------------

\* no process has called anything; no cluster exists
InitLife ==
    /\ live = {}
    /\ store = [n \in Identities |-> NotFound]
    /\ provisioned = [n \in Identities |-> NotProvisioned]
    /\ registered = {}
    /\ pc = [p \in Procs |-> "idle"]
    /\ args = [p \in Procs |-> [name |-> "", config |-> NoConfig]]
    /\ handle = [p \in Procs |-> NoHandle]
    /\ cr = [p \in Procs |-> CrIdle]
    /\ ret = [p \in Procs |-> NothingReturned]

\* no GetNodes call is being explored
InitNoNodes ==
    /\ loopVarPerIteration = TRUE
    /\ liveOut = <<>>
    /\ cfgNodes = <<>>
    /\ maps = <<>>
    /\ objs = <<>>
    /\ nodes = <<>>
    /\ res = NoErr
    /\ gnpc = "off"
    /\ snapshot = [declared |-> <<>>, nodes |-> <<>>]
    /\ touched = {}
    /\ mutations = 0

\* no runChildProcess call is being explored
InitNoChild ==
    /\ cpInput = 0
    /\ cpMain = "off"
    /\ cpErr = "none"
    /\ cpPipe = NoPipe
    /\ cpProducer = NoProducer
    /\ cpChild = NewChild("readsAll", 0)

Init == InitLife /\ InitNoNodes /\ InitNoChild

Next ==
    \E p \in Procs :
        \/ \E in \in NewClusterInputs(p) : NewClusterCall(p, in[1], in[2])
        \/ NewClusterRead(p)
        \/ CreateProvision(p)
        \/ CreateWrite(p)
        \/ Crash(p)
        \/ Delete(p)

Spec == Init /\ [][Next]_vars

\* one GetNodes call: any build, any output of the tool, any declared nodes
InitNodes ==
    /\ InitLife
    /\ loopVarPerIteration \in BOOLEAN
    /\ liveOut \in LiveOutputs
    /\ cfgNodes \in DeclaredLists
    /\ maps = [i \in 1..Len(cfgNodes) |-> 0]
    /\ objs = <<>>
    /\ nodes = <<>>
    /\ res = NoErr
    /\ gnpc = "ready"
    /\ snapshot = [declared |-> <<>>, nodes |-> <<>>]
    /\ touched = {}
    /\ mutations = 0
    /\ InitNoChild

NextNodes ==
    \/ GetNodes
    \/ \E i \in 1..Len(cfgNodes) : MutateClusterNode(i)
    \/ \E k \in 1..Len(nodes) : MutateReturnedNode(k)

SpecNodes == InitNodes /\ [][NextNodes]_vars

\* every operation of a handle, on two identities: a GetNodes call on a
\* handle that declares one control-plane node runs beside the others
InitAccess ==
    /\ InitLife
    /\ loopVarPerIteration \in BOOLEAN
    /\ liveOut = <<NameControlPlane>>
    /\ cfgNodes = <<NodeValue(ControlPlaneRole, 1, 1)>>
    /\ maps = <<0>>
    /\ objs = <<>>
    /\ nodes = <<>>
    /\ res = NoErr
    /\ gnpc = "ready"
    /\ snapshot = [declared |-> <<>>, nodes |-> <<>>]
    /\ touched = {}
    /\ mutations = 0
    /\ InitNoChild

NextAccess ==
    \/ GetNodes
    \/ \E p \in Procs :
          \/ \E in \in AccessInputs(p) : NewClusterCall(p, in[1], in[2])
          \/ NewClusterRead(p)
          \/ CreateProvision(p)
          \/ CreateWrite(p)
          \/ Crash(p)
          \/ Delete(p)
          \/ PrintClusterInfo(p)
          \/ RegisterNvidiaRuntimeClass(p)

SpecAccess == InitAccess /\ [][NextAccess]_vars

\* one runChildProcess call: any input length, any child, any exit status
InitChild ==
    /\ InitLife
    /\ InitNoNodes
    /\ cpInput \in 0..MaxInput
    /\ cpMain = "start"
    /\ cpErr = "none"
    /\ cpPipe = NoPipe
    /\ cpProducer = NoProducer
    /\ cpChild \in {NewChild(k, e) : k \in ChildKinds, e \in ExitCodes}

NextChild == Main \/ Producer \/ Child

\* the Go scheduler runs every runnable goroutine and the operating system
\* runs the child: no party that can take a step waits forever
SpecChild ==
    /\ InitChild
    /\ [][NextChild]_vars
    /\ WF_vars(Main)
    /\ WF_vars(Producer)
    /\ WF_vars(Child)

\* ------------------------------------------------------------------------
\* Properties of GetNodes (specification SpecNodes)
\* ------------------------------------------------------------------------

\* the live names, as a set
LiveSet == {liveOut[i] : i \in 1..Len(liveOut)}

\* the role a live name carries after its trailing digits
IsControlPlaneName(n) == HasSuffix(TrimRightDigits(n), ControlPlaneRole)

IsWorkerName(n) ==
    /\ ~IsControlPlaneName(n)
    /\ HasSuffix(TrimRightDigits(n), WorkerRole)

NamesOfRole(r) ==
    {n \in LiveSet : IF r = ControlPlaneRole THEN IsControlPlaneName(n)
                     ELSE IsWorkerName(n)}

\* the live names that carry neither role token
UnknownNames == {n \in LiveSet : ~IsControlPlaneName(n) /\ ~IsWorkerName(n)}

\* the position of n among the names S in lexicographic order
Rank(n, S) == Cardinality({m \in S : LexLess(m, n)}) + 1

\* the declarations of role r as they were at the call, in declaration order
DeclaredOfRole(r) == SelectSeq(snapshot.declared, LAMBDA d : d.Role = r)

\* the call went through the listing, the classification of the names and
\* the partition of the declarations
Resolvable ==
    /\ gnpc = "done"
    /\ res.err # "exec"
    /\ UnknownNames = {}
    /\ \A i \in 1..Len(snapshot.declared) :
          snapshot.declared[i].Role \in {ControlPlaneRole, WorkerRole}

C8_CountMismatch ==
    LET differs(r) == Cardinality(NamesOfRole(r)) # Len(DeclaredOfRole(r))
    IN  /\ (gnpc = "done" /\ res.err = "none") =>
               /\ ~differs(ControlPlaneRole)
               /\ ~differs(WorkerRole)
               /\ Len(nodes) = Cardinality(LiveSet)
               /\ Len(nodes) = Len(snapshot.declared)
        /\ (gnpc = "done" /\ res.err # "none") => nodes = <<>>
        /\ (Resolvable /\ (differs(ControlPlaneRole) \/ differs(WorkerRole))) =>
               /\ res.err = "mismatch"
               /\ res.arg = IF differs(ControlPlaneRole) THEN ControlPlaneRole
                            ELSE WorkerRole

\* the example of C8: two live workers, one declared worker
C8_TwoWorkersOneDeclared ==
    /\ gnpc = "done"
    /\ res.err = "mismatch"
    /\ res.arg = WorkerRole
    /\ Cardinality(NamesOfRole(WorkerRole)) = 2
    /\ Len(DeclaredOfRole(WorkerRole)) = 1

\* C9: when some live name carries neither role token, GetNodes returns
\* the unknown-role error naming such a name (the first in sorted order)
\* and no nodes, whatever the other names and the declarations are; it
\* returns that error in no other case; and on success the names that
\* carry the control-plane token are the first group, those that carry the
\* worker token the second.
C9_RoleInference ==
    (gnpc = "done" /\ res.err # "exec") =>
        /\ UnknownNames # {} =>
              /\ res.err = "unknownName"
              /\ res.arg \in UnknownNames
              /\ \A u \in UnknownNames : ~LexLess(u, res.arg)
              /\ nodes = <<>>
        /\ res.err = "unknownName" => UnknownNames # {}
        /\ res.err = "none" =>
              \A k \in 1..Len(nodes) :
                  /\ nodes[k].Name \in LiveSet
                  /\ (k <= Cardinality(NamesOfRole(ControlPlaneRole)))
                        <=> IsControlPlaneName(nodes[k].Name)
                  /\ (k > Cardinality(NamesOfRole(ControlPlaneRole)))
                        <=> IsWorkerName(nodes[k].Name)

\* the example of C9: a name ending in xyz-2 among names and declarations
\* that would otherwise resolve
C9_Xyz2 ==
    /\ gnpc = "done"
    /\ res.err = "unknownName"
    /\ res.arg = NameXyz2
    /\ NameWorker \in LiveSet
    /\ Len(snapshot.declared) > 0

\* C10: no two returned nodes share a declaration object or a Labels map,
\* none shares a Labels map with the cluster configuration, and a returned
\* node the caller has not mutated itself holds what it held at the return,
\* whatever the caller has mutated since.
C10_PrivateCopies ==
    (gnpc = "done" /\ res.err = "none") =>
        /\ \A j, k \in 1..Len(nodes) :
              j # k =>
                 /\ nodes[j].config # nodes[k].config
                 /\ \/ objs[nodes[j].config].Labels = 0
                    \/ objs[nodes[j].config].Labels # objs[nodes[k].config].Labels
        /\ \A k \in 1..Len(nodes), i \in 1..Len(cfgNodes) :
              \/ objs[nodes[k].config].Labels = 0
              \/ objs[nodes[k].config].Labels # cfgNodes[i].Labels
        /\ \A k \in 1..Len(nodes) :
              k \notin touched => NodeView(nodes[k], objs, maps) = snapshot.nodes[k]

\* the case of C10: two nodes were returned and the caller has since
\* written into the Labels map of a declaration of the cluster configuration
C10_ClusterMutated ==
    /\ gnpc = "done"
    /\ res.err = "none"
    /\ Len(nodes) >= 2
    /\ \E i \in 1..Len(cfgNodes) : DeclView(cfgNodes[i], maps) # snapshot.declared[i]

\* what a GetNodes call returned, with the configurations followed through
\* their pointers
OutcomeView(out) ==
    [err |-> out.err, arg |-> out.arg,
     nodes |-> [k \in 1..Len(out.nodes) |->
                   [Name |-> out.nodes[k].Name,
                    config |-> NodeView(out.nodes[k], out.objs, out.maps)]]]

\* the names of liveOut in lexicographic order: one of the orders in which
\* `kind get nodes` can report them
LexicographicOrder ==
    [k \in 1..Len(liveOut) |-> CHOOSE n \in LiveSet : Rank(n, LiveSet) = k]

\* C14: a GetNodes call gives what it gives when the same names are
\* reported in lexicographic order: the same error, or the same sequence
\* of names with the same configurations.  Every order of every set of
\* names is the output of a call of SpecNodes, so any two orders of the
\* same names give the same outcome.
C14_OrderIndependent ==
    (gnpc = "done" /\ res.err # "exec" /\ mutations = 0) =>
        OutcomeView(GetNodesOutcome(TRUE, LexicographicOrder, cfgNodes, <<>>,
                                    SubSeq(maps, 1, Len(cfgNodes)),
                                    loopVarPerIteration))
        = [err |-> res.err, arg |-> res.arg,
           nodes |-> [k \in 1..Len(nodes) |->
                         [Name |-> nodes[k].Name,
                          config |-> snapshot.nodes[k]]]]

\* the case of C14: three names reported in an order that is not the
\* sorted one, resolved against three declarations
C14_UnsortedReport ==
    /\ gnpc = "done"
    /\ res.err = "none"
    /\ Len(nodes) = 3
    /\ \E i \in 1..2 : LexLess(liveOut[i + 1], liveOut[i])
    /\ \E k \in 1..3 : nodes[k].Name # liveOut[k]

\* ------------------------------------------------------------------------
\* Properties of NewCluster and Create (specification Spec)
\* ------------------------------------------------------------------------

\* the caller's configuration of the last NewCluster call of p, with its
\* name set to the requested identity
Normalized(p) == [args[p].config EXCEPT !.Name = args[p].name]

\* the last call of p was a NewCluster for a named identity that found a
\* live cluster and read a record from its store
ReadExisting(p) ==
    /\ ret[p].op = "NewCluster"
    /\ ret[p].existed
    /\ args[p].name # ""
    /\ ret[p].read.found

\* C1: NewCluster for a live cluster, with a configuration that differs
\* from the decoded stored one once its name is the identity, fails with
\* the conflict error, returns no handle and leaves the record as it was.
C1_ConflictRejected ==
    \A p \in Procs :
        (/\ ReadExisting(p)
         /\ ~args[p].config.nil
         /\ Unmarshal(ret[p].read.data) # Normalized(p))
        => /\ ret[p].err = "conflict"
           /\ handle[p].nil
           /\ ret[p].storeAfter = ret[p].read

\* the case of C1: a conflict on a configuration that declares one node
\* where the stored one declares none
C1_Conflict ==
    \E p \in Procs :
        /\ ReadExisting(p)
        /\ ret[p].err = "conflict"
        /\ Len(Normalized(p).Nodes.elems) = 1
        /\ "nodes" \notin ret[p].read.data.keys

\* C2: NewCluster for a live cluster whose record was written by a Create
\* with configuration c, called with the same c, succeeds, keeps c as the
\* configuration of the handle and leaves the record as it was.
C2_NoSpuriousConflict ==
    \A p \in Procs :
        (/\ ReadExisting(p)
         /\ ~args[p].config.nil
         /\ ret[p].read.written = Normalized(p))
        => /\ ret[p].err = "none"
           /\ ~handle[p].nil
           /\ handle[p].config = Normalized(p)
           /\ ret[p].storeAfter = ret[p].read

\* C4: a record exists only in a live cluster and was written by a Create
\* whose provisioning command had succeeded; a Create is at the store write
\* only after its command succeeded; a Create ran the command at most once,
\* and when the command failed it returned an error without a write.
C4_WriteAfterProvisioning ==
    /\ \A n \in Identities : store[n].found => (n \in live /\ store[n].provOk)
    /\ \A p \in Procs :
          /\ pc[p] = "cr_write" => cr[p].provOk
          /\ ret[p].op = "Create" =>
                /\ ret[p].provRuns <= 1
                /\ ~ret[p].provOk => (ret[p].err # "none" /\ ret[p].writes = 0)

\* the cases of C4: a Create whose command failed has returned, and a
\* process has died inside Create leaving a cluster without a record
C4_FailedAndCrashed ==
    \E p, q \in Procs :
        /\ ret[p].op = "Create"
        /\ ~ret[p].provOk
        /\ ret[p].err = "executing command"
        /\ ret[q].op = "crash"
        /\ \E n \in live : ~store[n].found

\* C5: when Create has returned, either it returned success and the
\* cluster was live with the handle's configuration recorded, or it
\* returned an error and did not leave the cluster it provisioned live
\* without a record.
C5_NoPartialSuccess ==
    \A p \in Procs :
        ret[p].op = "Create" =>
            \/ /\ ret[p].err = "none"
               /\ ret[p].liveAfter
               /\ ret[p].storeAfter.found
               /\ ret[p].storeAfter.data = Marshal(handle[p].config)
            \/ /\ ret[p].err # "none"
               /\ ~(ret[p].provOk /\ ret[p].liveAfter /\ ~ret[p].storeAfter.found)

\* C6: NewCluster without a configuration, for a live cluster whose record
\* was written by a Create with configuration c, succeeds with a handle
\* whose configuration equals c.
C6_RoundTrip ==
    \A p \in Procs :
        (ReadExisting(p) /\ args[p].config.nil)
        => /\ ret[p].err = "none"
           /\ ~handle[p].nil
           /\ DeepEqual(handle[p].config, ret[p].read.written)

\* C7: NewCluster for a named identity without a live cluster, with a
\* configuration, succeeds with a handle of that name whose configuration
\* carries that name and is the caller's in the other fields; whenever a
\* handle is returned for a named identity and a supplied configuration,
\* the configuration carries the name; and every record carries the name of
\* its cluster.
C7_NameNormalized ==
    /\ \A p \in Procs :
          /\ (/\ ret[p].op = "NewCluster"
              /\ ret[p].err # "listing"
              /\ ~ret[p].existed
              /\ args[p].name # ""
              /\ ~args[p].config.nil)
             => /\ ret[p].err = "none"
                /\ ~handle[p].nil
                /\ handle[p].Name = args[p].name
                /\ handle[p].config.Name = args[p].name
                /\ handle[p].config.Nodes = args[p].config.Nodes
          /\ (/\ ret[p].op = "NewCluster"
              /\ ret[p].err = "none"
              /\ args[p].name # ""
              /\ ~args[p].config.nil)
             => /\ handle[p].Name = args[p].name
                /\ handle[p].config.Name = args[p].name
    /\ \A n \in Identities :
          store[n].found =>
             ("name" \in store[n].data.keys /\ store[n].data.name = n)

\* the case of C7: cluster "a" was requested with a configuration named
\* "b" while no cluster "a" existed, and the handle was returned
C7_Renamed ==
    \E p \in Procs :
        /\ ret[p].op = "NewCluster"
        /\ ret[p].err = "none"
        /\ ~ret[p].existed
        /\ args[p].name = "a"
        /\ args[p].config.Name = "b"
        /\ handle[p].config.Name = "a"

C12_MissingRecordRejected ==
    \A p \in Procs :
        (/\ ret[p].op = "NewCluster"
         /\ ret[p].existed
         /\ ret[p].err # "listing"
         /\ ~ret[p].read.found)
        => /\ ret[p].err = "getting config bytes"
           /\ handle[p].nil

\* the case of C12: a cluster that is live without a record was requested
\* by one process without a configuration and by another with one
C12_LiveWithoutRecord ==
    \E p, q \in Procs :
        /\ \A r \in {p, q} :
              /\ ret[r].op = "NewCluster"
              /\ ret[r].existed
              /\ ret[r].liveAfter
              /\ ~ret[r].storeAfter.found
              /\ ret[r].err = "getting config bytes"
        /\ args[p].config.nil
        /\ ~args[q].config.nil

\* C13: under every interleaving of the processes that call NewCluster,
\* Create and Delete for an identity, at most one Create has returned
\* success since the live cluster was provisioned, a Create whose command
\* lost the race for the identity returned an error, and a record exists
\* only in a live cluster and holds the configuration that cluster was
\* provisioned with.
C13_OneWinnerOneConfiguration ==
    /\ \A n \in Identities :
          /\ provisioned[n].successes <= 1
          /\ n \notin live => provisioned[n] = NotProvisioned
          /\ store[n].found =>
                /\ n \in live
                /\ store[n].data = provisioned[n].bytes
    /\ \A p \in Procs :
          (ret[p].op = "Create" /\ ~ret[p].provOk) => ret[p].err # "none"

\* C17: the store write of a Create whose cluster can be addressed makes
\* at least one and at most RetrySteps attempts, any other Create makes
\* none; every attempt but the last one ended in a conflict
\* (no attempt follows a success or another failure); a last attempt that
\* ended in a conflict was the last of the budget; Create returns success
\* exactly when the last attempt succeeded.
C17_BoundedRetry ==
    \A p \in Procs :
        ret[p].op = "Create" =>
            LET log == ret[p].log
            IN  /\ Len(log) <= RetrySteps
                /\ ret[p].writes = Len(log)
                /\ (ret[p].provOk /\ ret[p].target # "") <=> Len(log) >= 1
                /\ \A i \in 1..(Len(log) - 1) : log[i] = "conflict"
                /\ Len(log) >= 1 =>
                      /\ ret[p].err = "none" <=> log[Len(log)] = "ok"
                      /\ log[Len(log)] = "conflict" => Len(log) = RetrySteps

\* the cases of C17: a write that succeeded at the last attempt of the
\* budget, and a write that gave up at once on a record that exists
C17_LastAttemptAndExists ==
    \E p, q \in Procs :
        /\ ret[p].op = "Create"
        /\ Len(ret[p].log) = RetrySteps
        /\ ret[p].log[RetrySteps] = "ok"
        /\ ret[p].err = "none"
        /\ ret[q].op = "Create"
        /\ ret[q].log = <<"exists">>
        /\ ret[q].err = "adding config to cluster"

\* C18: when an external step of a call failed (the command, the listing,
\* the store read, the store write), the call returned an error whose
\* outermost message names the operation and whose innermost wrapped error
\* is what the step reported; and a call returned an error chain exactly
\* when it returned an error.
C18_CausePropagated ==
    \A p \in Procs :
        /\ ret[p].failure # "" =>
              /\ ret[p].err # "none"
              /\ Len(ret[p].chain) >= 2
              /\ Cause(ret[p].chain) = ret[p].failure
        /\ ret[p].err # "none" <=> ret[p].chain # NilError

\* C19: when NewCluster returns a handle whose Name is the identity of a
\* cluster that is live, it has read the record of that cluster and the
\* configuration of the handle equals the decoded record, with a name
\* option and without one, with a configuration and without one.
C19_HandleReconciled ==
    \A p \in Procs :
        (/\ ret[p].op = "NewCluster"
         /\ ret[p].err = "none"
         /\ ret[p].liveAfter)
        => /\ ~handle[p].nil
           /\ ret[p].read.found
           /\ DeepEqual(handle[p].config, Unmarshal(ret[p].read.data))

\* ------------------------------------------------------------------------
\* Properties of the accesses to the clusters (specification SpecAccess)
\* ------------------------------------------------------------------------

\* the last call of p accessed a cluster through kubectl or the client
AccessedCluster(p) ==
    \/ ret[p].op \in {"PrintClusterInfo", "RegisterNvidiaRuntimeClass"}
    \/ ret[p].op = "NewCluster" /\ ret[p].existed /\ ret[p].err # "listing"
    \/ ret[p].op = "Create" /\ ret[p].provOk

\* the identity the last call of p was made for
CallIdentity(p) ==
    IF ret[p].op = "NewCluster" THEN args[p].name ELSE handle[p].Name

\* C15: every access to a cluster made for identity n (cluster-info and
\* node listing, manifest apply, store read, store write) names the
\* context "kind-" + n and reaches the cluster n or none, and a record
\* carries the name of the cluster that holds it.
C15_ExplicitContext ==
    /\ \A p \in Procs :
          AccessedCluster(p) =>
             /\ ret[p].ctx = "kind-" \o CallIdentity(p)
             /\ ret[p].target \in {"", CallIdentity(p)}
    /\ \A n \in Identities :
          store[n].found => store[n].data.name = n

\* the case of C15: both clusters are live with their records, and the
\* manifest has been applied for "a" and has reached "a" only
C15_TwoClusters ==
    \E p \in Procs :
        /\ live = {"a", "b"}
        /\ store["a"].found /\ store["b"].found
        /\ ret[p].op = "RegisterNvidiaRuntimeClass"
        /\ ret[p].err = "none"
        /\ handle[p].Name = "a"
        /\ registered = {"a"}

\* C16: in every step of any process (NewCluster, Create, GetNodes,
\* PrintClusterInfo, RegisterNvidiaRuntimeClass, with any configuration),
\* the record of a cluster that stays live stays as it is; and a Create on
\* a handle whose cluster is live does not get past its command.
C16_StoredOnce ==
    [][/\ \A n \in Identities :
             (store[n].found /\ n \in live') => store'[n] = store[n]
       /\ \A p \in Procs :
             (pc[p] = "idle" /\ pc'[p] = "cr_write") => handle[p].Name \notin live
      ]_vars

\* the case of C16: a Create with another configuration has failed on a
\* live cluster that holds its record, after every other operation ran
C16_CreateOnLiveCluster ==
    \E p, q \in Procs :
        /\ ret[p].op = "Create"
        /\ ~ret[p].provOk
        /\ ret[p].err = "executing command"
        /\ ret[p].liveAfter
        /\ ret[p].storeAfter.found
        /\ ret[p].storeAfter.written # handle[p].config
        /\ store[handle[p].Name] = ret[p].storeAfter
        /\ ret[q].op = "PrintClusterInfo"
        /\ gnpc = "done"
        /\ registered # {}

\* ------------------------------------------------------------------------
\* Properties of runChildProcess (specification SpecChild)
\* ------------------------------------------------------------------------

\* runChildProcess has returned
ChildCallReturned == cpMain = "returned"

\* the child was run and exited with status zero
ChildSucceeded == cpChild.state = "exited" /\ cpChild.exit = 0

\* what holds in every state of a runChildProcess call
ChildCallSafe ==
    \* a goroutine that has finished has closed the pipe, also after a
    \* failed write
    /\ cpProducer.pc = "done" => ~cpPipe.writeOpen
    \* the goroutine is started with the pipe, before the child is
    /\ (cpInput > 0 /\ cpMain \in {"run", "wait"}) =>
          (cpPipe.attached /\ cpProducer.pc # "none")
    \* with empty input there is neither a pipe nor a goroutine
    /\ cpInput = 0 => (~cpPipe.attached /\ cpProducer.pc = "none")
    \* the result is an error exactly when the child was not run or exited
    \* non-zero, whatever the goroutine's write did
    /\ ChildCallReturned => (cpErr = "none" <=> ChildSucceeded)
    /\ ~ChildCallReturned => cpErr = "none"
    \* the child never reads more than was written, nor more than the input
    /\ cpChild.read + cpPipe.buf <= cpProducer.written
    /\ cpProducer.written <= cpInput

\* C20: runChildProcess cannot deadlock on the child's standard input: the
\* goroutine writes beside the wait for the child and always closes the
\* pipe, so with a child that reads to end-of-input and then exits the call
\* eventually returns; the result is an error exactly when the child could
\* not be run or exited non-zero, never because the goroutine's write
\* failed; with empty input no goroutine is started and no pipe attached
C20_NoDeadlock ==
    /\ []ChildCallSafe
    /\ (cpMain = "start" /\ cpChild.kind = "readsAll") ~> ChildCallReturned

\* a call with non-empty input has returned without an error: the child
\* has read every byte and seen end-of-input, the goroutine has finished
C20_InputReadToTheEnd ==
    /\ ChildCallReturned
    /\ cpErr = "none"
    /\ cpInput = MaxInput
    /\ cpChild.kind = "readsAll"
    /\ cpChild.read = cpInput
    /\ cpProducer.pc = "done"
    /\ ~cpProducer.failed

====
